---- MODULE Spec2Model ----
(***************************************************************************)
(* Model of dirwatcher.py (Python 2): a polling loop that lists a          *)
(* directory, keeps a dictionary watched_files of file name -> last line   *)
(* read, scans every watched file for the magic text and stops when a      *)
(* signal handler has set exit_flag.                                       *)
(*                                                                         *)
(* File names, lines and the magic text are sequences of one-character     *)
(* strings, so that str.endswith and the "in" substring test are computed. *)
(* A file is a sequence of lines.  The file system (fs, dir_ok) belongs to *)
(* the environment, which may change it between any two program steps.     *)
(***************************************************************************)
EXTENDS Integers, Sequences, FiniteSets, TLC

\* Bound of the model: the number of lines the files of the monitored
\* directory hold together.
MaxLines == 2

\* The command line arguments (args.ext, args.magic): fixed for a run.
ext == <<".", "t">>
magic == <<"m", "g">>

\* The file names of the monitored directory: two that end with ext, which
\* the environment creates and deletes, and one that does not, which is
\* there from the start.
Names == { <<"a", ".", "t">>, <<"b", ".", "t">>, <<"c", ".", "g">> }

\* The lines the environment may write.
LineSet == { <<"x", "g">>, <<"x", "m", "g", "x">> }

\* args.int in seconds: the default of the option, and the values a run may
\* be started with.
DefaultInterval == 1
Intervals == { DefaultInterval, 5 }

\* The pause of the 'except Exception' clause, in seconds
BackoffSeconds == 4

VARIABLES
    fs,             \* environment: file name -> sequence of lines, for the files that exist
    dir_ok,         \* environment: the monitored path exists and can be listed
    exit_flag,      \* global exit_flag
    watched_files,  \* global watched_files: file name -> last line read
    dir_files,      \* watch_directory's local dir_files
    todo,           \* watched files the scan loop of watch_directory has not reached yet
    pc,             \* position of main()
    added,          \* history: names this call of watch_directory logged 'Watching new file'
    removed,        \* output of the latest step: names it logged 'Removed file'
    last_scan,      \* output of the latest step: its scan_single_file call, or NoScan
    failed,         \* output of the latest step: the file whose open() raised, or NoFile
    rewritten,      \* history: watched files replaced (deleted, perhaps created again)
                    \* since they were last logged 'Watching new file'
    interval,       \* args.int
    paused,         \* output of the latest step: the seconds it slept
    tested,         \* history: watched file -> numbers of the lines tested for magic
    reported,       \* history: watched file -> numbers of the lines logged as found
                    \* (both since 'Watching new file', and empty once the file is
                    \* in rewritten)
    retry           \* history: the watched file whose open() ended the latest call,
                    \* until the next call compares watched_files with a listing

\* dir_files, todo and added belong to one call of watch_directory: they are
\* empty while no call is in progress.

vars == << fs, dir_ok, exit_flag, watched_files, dir_files, todo, pc,
           added, removed, last_scan, failed, rewritten,
           interval, paused, tested, reported, retry >>

NoScan == [file |-> <<>>, start_line |-> -1, events |-> <<>>, ret |-> -1]
NoFile == <<>>

----------------------------------------------------------------------------
\* Pure helpers

RECURSIVE SumLen(_, _)
SumLen(files, S) ==
    IF S = {} THEN 0
    ELSE LET f == CHOOSE g \in S : TRUE
         IN  Len(files[f]) + SumLen(files, S \ {f})

\* The number of lines in the monitored directory
TotalLines(files) == SumLen(files, DOMAIN files)

\* file.endswith(ext)
endswith(file, suffix) ==
    /\ Len(suffix) <= Len(file)
    /\ SubSeq(file, Len(file) - Len(suffix) + 1, Len(file)) = suffix

\* magic in line
Contains(line, text) ==
    \E i \in 0..(Len(line) - Len(text)) : SubSeq(line, i + 1, i + Len(text)) = text

\* The for loop of scan_single_file over enumerate(f), from 0-based index
\* line_num on: the 1-based numbers of the lines logged as found.
RECURSIVE ScanLoop(_, _, _, _)
ScanLoop(lines, line_num, start_line, text) ==
    IF line_num >= Len(lines) THEN <<>>
    ELSE (IF line_num >= start_line /\ Contains(lines[line_num + 1], text)
          THEN << line_num + 1 >> ELSE <<>>)
         \o ScanLoop(lines, line_num + 1, start_line, text)

\* The 1-based numbers of the lines for which the loop evaluates 'magic in
\* line': those with line_num >= start_line.
TestedLines(lines, start_line) ==
    { k \in 1..Len(lines) : k - 1 >= start_line }

\* The value of line_num when the for loop has ended: 0 when the loop body
\* never ran, else the index of the last line.
LastLineNum(lines) == IF Len(lines) = 0 THEN 0 ELSE Len(lines) - 1

\* Mutant of scan_single_file: the test compares the 1-based line number,
\* line_num + 1 >= start_line.
scan_single_file_one_based(lines, start_line, text) ==
    [events |-> ScanLoop(lines, 0, start_line - 1, text),
     ret    |-> LastLineNum(lines) + 1]

\* Mutant of scan_single_file: the test is line_num > start_line, which
\* skips the first line after those already read.
scan_single_file_skips_one(lines, start_line, text) ==
    [events |-> ScanLoop(lines, 0, start_line + 1, text),
     ret    |-> LastLineNum(lines) + 1]

\* Mutant of scan_single_file: returns line_num, the 0-based index of the
\* last line, without the + 1.
scan_single_file_last_index(lines, start_line, text) ==
    [events |-> ScanLoop(lines, 0, start_line, text),
     ret    |-> LastLineNum(lines)]

\* scan_single_file(filename, start_line, magic) on a file that opens
scan_single_file(lines, start_line, text) ==
    [events |-> ScanLoop(lines, 0, start_line, text),
     ret    |-> LastLineNum(lines) + 1]

\* open(filename) succeeds
CanOpen(f) == dir_ok /\ f \in DOMAIN fs

\* [f in listing if f.endswith(ext)]
Matching(S) == { f \in S : endswith(f, ext) }

----------------------------------------------------------------------------
Init ==
    /\ fs = [f \in Names \ Matching(Names) |-> <<>>]
    /\ dir_ok = TRUE
    /\ exit_flag = FALSE
    /\ watched_files = << >>
    /\ dir_files = {}
    /\ todo = {}
    /\ pc = "check"
    /\ added = {}
    /\ removed = {}
    /\ last_scan = NoScan
    /\ failed = NoFile
    /\ rewritten = {}
    /\ interval = DefaultInterval
    /\ paused = 0
    /\ tested = << >>
    /\ reported = << >>
    /\ retry = {}

progVars == << exit_flag, watched_files, dir_files, todo, pc, added >>

\* A step that logs no removal, makes no scan and fails to open no file
NoOutput ==
    /\ removed' = {}
    /\ last_scan' = NoScan
    /\ failed' = NoFile

\* A step that does not sleep
Quiet == paused' = 0

\* A step that tests no line and has no open() raise
NoScanHistory == UNCHANGED << tested, reported, retry >>

----------------------------------------------------------------------------
\* Environment: other processes changing the monitored directory

CreateFile(f) ==
    /\ pc # "stopped"
    /\ dir_ok
    /\ endswith(f, ext)
    /\ f \notin DOMAIN fs
    /\ fs' = [g \in DOMAIN fs \cup {f} |-> IF g = f THEN <<>> ELSE fs[g]]
    /\ NoOutput
    /\ Quiet
    /\ NoScanHistory
    /\ UNCHANGED interval
    /\ UNCHANGED << dir_ok, progVars, rewritten >>

AppendLine(f, l) ==
    /\ pc # "stopped"
    /\ dir_ok
    /\ f \in DOMAIN fs
    /\ endswith(f, ext)
    /\ TotalLines(fs) < MaxLines
    /\ fs' = [fs EXCEPT ![f] = Append(@, l)]
    /\ NoOutput
    /\ Quiet
    /\ NoScanHistory
    /\ UNCHANGED interval
    /\ UNCHANGED << dir_ok, progVars, rewritten >>

DeleteFile(f) ==
    /\ pc # "stopped"
    /\ dir_ok
    /\ endswith(f, ext)
    /\ f \in DOMAIN fs
    /\ fs' = [g \in DOMAIN fs \ {f} |-> fs[g]]
    /\ rewritten' = rewritten \cup ({f} \cap DOMAIN watched_files)
    /\ NoOutput
    /\ Quiet
    /\ tested' = [g \in DOMAIN tested |-> IF g = f THEN {} ELSE tested[g]]
    /\ reported' = [g \in DOMAIN reported |-> IF g = f THEN {} ELSE reported[g]]
    /\ UNCHANGED << retry, interval >>
    /\ UNCHANGED << dir_ok, progVars >>

\* The monitored path becomes unavailable (moved away, unmounted) and
\* available again, with its files as they were.
RemoveDir ==
    /\ pc # "stopped"
    /\ dir_ok
    /\ dir_ok' = FALSE
    /\ NoOutput
    /\ Quiet
    /\ NoScanHistory
    /\ UNCHANGED interval
    /\ UNCHANGED << fs, progVars, rewritten >>

RestoreDir ==
    /\ pc # "stopped"
    /\ ~dir_ok
    /\ dir_ok' = TRUE
    /\ NoOutput
    /\ Quiet
    /\ NoScanHistory
    /\ UNCHANGED interval
    /\ UNCHANGED << fs, progVars, rewritten >>

Env ==
    \/ \E f \in Names : CreateFile(f)
    \/ \E f \in Names, l \in LineSet : AppendLine(f, l)
    \/ \E f \in Names : DeleteFile(f)
    \/ RemoveDir
    \/ RestoreDir

----------------------------------------------------------------------------
\* Mutant of CheckForNewFiles: the first loop assigns 1 to every listed file
\* that ends with ext, watched already or not.
CheckForNewFilesResets(wf, listing) ==
    [f \in DOMAIN wf \cup Matching(listing) |->
        IF f \in DOMAIN wf \ listing THEN wf[f] ELSE 1]

\* watch_directory, first loop: watch the listed files that end with ext
\* and are not watched yet, from line 1.
CheckForNewFiles(wf, listing) ==
    [f \in DOMAIN wf \cup Matching(listing) |-> IF f \in DOMAIN wf THEN wf[f] ELSE 1]

\* Mutant of StopWatchingDeleted: the second loop is missing.
StopWatchingNothing(wf, listing) == wf

\* watch_directory, second loop: pop the watched files that are not listed.
StopWatchingDeleted(wf, listing) ==
    [f \in DOMAIN wf \cap listing |-> wf[f]]

\* Mutant of RemovalRaises: the loop iterates the dictionary itself (or a
\* view of its keys), so the first pop makes the iteration raise.
RemovalRaisesOnView(wf, listing) == DOMAIN wf \ listing # {}

\* Whether the second loop raises while it pops entries of the dictionary it
\* iterates.  In Python 2 watched_files.keys() is a new list, so popping from
\* the dictionary never disturbs the iteration.
RemovalRaises(wf, listing) == FALSE

\* Mutant of ExceptClause: main() has no 'except Exception' clause, so any
\* exception but OSError ends the process.
ExceptClauseOSErrorOnly(exc) == IF exc = "OSError" THEN "except_os" ELSE "stopped"

\* The except clause of main() that handles an exception of class exc:
\* os.listdir raises OSError, open() raises IOError, and in Python 2 IOError
\* is not a subclass of OSError.
ExceptClause(exc) == IF exc = "OSError" THEN "except_os" ELSE "except_other"

\* Mutant of LoopCondition: while True
LoopConditionTrue == TRUE

\* while not exit_flag
LoopCondition == ~exit_flag

\* Mutant of AfterOSError: the except clause retries the call at once
\* (continue inside a nested retry loop), skipping the sleep and the test.
AfterOSErrorRetry == "list"

\* Where main() goes after logging an OSError: on to time.sleep(args.int).
AfterOSError == "sleep"

----------------------------------------------------------------------------
\* The call of watch_directory is over, by return or by an exception that
\* leaves it: its frame is gone.
EndCall ==
    /\ dir_files' = {}
    /\ todo' = {}
    /\ added' = {}

\* main(): the test of the while loop, then the call of watch_directory
LoopCheck ==
    /\ pc = "check"
    /\ IF LoopCondition
       THEN pc' = "list"
       ELSE pc' = "stopped"
    /\ NoOutput
    /\ Quiet
    /\ NoScanHistory
    /\ UNCHANGED interval
    /\ UNCHANGED << fs, dir_ok, exit_flag, watched_files, dir_files, todo, added,
                    rewritten >>

\* Mutant of ListDir: a listing that fails counts as an empty one.
ListDirEmptyOnFailure ==
    /\ pc = "list"
    /\ dir_files' = (IF dir_ok THEN DOMAIN fs ELSE {})
    /\ pc' = "reconcile"
    /\ NoOutput
    /\ Quiet
    /\ NoScanHistory
    /\ UNCHANGED interval
    /\ UNCHANGED << fs, dir_ok, exit_flag, watched_files, todo, added, rewritten >>

\* dir_files = os.listdir(path)
ListDir ==
    /\ pc = "list"
    /\ IF dir_ok
       THEN /\ dir_files' = DOMAIN fs
            /\ pc' = "reconcile"
       ELSE /\ pc' = ExceptClause("OSError")
            /\ UNCHANGED dir_files
    /\ NoOutput
    /\ Quiet
    /\ NoScanHistory
    /\ UNCHANGED interval
    /\ UNCHANGED << fs, dir_ok, exit_flag, watched_files, todo, added, rewritten >>

\* The two loops 'Check for new files' and 'Stop watching deleted files'
Reconcile ==
    /\ pc = "reconcile"
    /\ LET new == CheckForNewFiles(watched_files, dir_files)
       IN  IF RemovalRaises(new, dir_files)
           THEN \E f \in DOMAIN new \ dir_files :
                   /\ watched_files' = [g \in DOMAIN new \ {f} |-> new[g]]
                   /\ removed' = {f}
                   /\ todo' = {}
                   /\ pc' = ExceptClause("RuntimeError")
           ELSE /\ watched_files' = StopWatchingDeleted(new, dir_files)
                /\ removed' = DOMAIN new \ dir_files
                /\ todo' = DOMAIN watched_files'
                /\ pc' = "scan"
    /\ added' = Matching(dir_files) \ DOMAIN watched_files
    /\ rewritten' = (rewritten \cap DOMAIN watched_files') \ added'
    /\ last_scan' = NoScan
    /\ failed' = NoFile
    /\ Quiet
    /\ tested' = [f \in DOMAIN watched_files' |->
                    IF f \in DOMAIN tested /\ f \notin added' THEN tested[f] ELSE {}]
    /\ reported' = [f \in DOMAIN watched_files' |->
                    IF f \in DOMAIN reported /\ f \notin added' THEN reported[f] ELSE {}]
    /\ retry' = {}
    /\ UNCHANGED << fs, dir_ok, exit_flag, dir_files, interval >>

\* One pass of the loop 'Scan watched files', for watched file f
ScanOne(f) ==
    /\ pc = "scan"
    /\ f \in todo
    /\ IF CanOpen(f)
       THEN LET r == scan_single_file(fs[f], watched_files[f], magic)
            IN  /\ watched_files' = [watched_files EXCEPT ![f] = r.ret]
                /\ last_scan' = [file |-> f, start_line |-> watched_files[f],
                                 events |-> r.events, ret |-> r.ret]
                /\ todo' = todo \ {f}
                /\ failed' = NoFile
                /\ IF f \in rewritten
                   THEN UNCHANGED << tested, reported >>
                   ELSE /\ tested' = [tested EXCEPT ![f] =
                                        @ \cup TestedLines(fs[f], watched_files[f])]
                        /\ reported' = [reported EXCEPT ![f] =
                                        @ \cup { r.events[i] : i \in DOMAIN r.events }]
                /\ UNCHANGED << pc, dir_files, added, retry >>
       ELSE /\ pc' = ExceptClause("IOError")
            /\ EndCall
            /\ failed' = f
            /\ last_scan' = NoScan
            /\ retry' = {f}
            /\ UNCHANGED << watched_files, tested, reported >>
    /\ removed' = {}
    /\ Quiet
    /\ UNCHANGED << fs, dir_ok, exit_flag, rewritten, interval >>

\* watch_directory returns
ScanDone ==
    /\ pc = "scan"
    /\ todo = {}
    /\ pc' = "sleep"
    /\ EndCall
    /\ NoOutput
    /\ Quiet
    /\ NoScanHistory
    /\ UNCHANGED interval
    /\ UNCHANGED << fs, dir_ok, exit_flag, watched_files, rewritten >>

\* except OSError: logger.error
HandleOSError ==
    /\ pc = "except_os"
    /\ pc' = AfterOSError
    /\ NoOutput
    /\ Quiet
    /\ NoScanHistory
    /\ UNCHANGED interval
    /\ UNCHANGED << fs, dir_ok, exit_flag, watched_files, dir_files, todo, added,
                    rewritten >>

\* except Exception: logger.error
HandleException ==
    /\ pc = "except_other"
    /\ pc' = "backoff"
    /\ NoOutput
    /\ Quiet
    /\ NoScanHistory
    /\ UNCHANGED interval
    /\ UNCHANGED << fs, dir_ok, exit_flag, watched_files, dir_files, todo, added,
                    rewritten >>

\* Mutant of Backoff: the except clause only logs, without time.sleep(4).
BackoffSkipped ==
    /\ pc = "backoff"
    /\ pc' = "sleep"
    /\ NoOutput
    /\ Quiet
    /\ NoScanHistory
    /\ UNCHANGED interval
    /\ UNCHANGED << fs, dir_ok, exit_flag, watched_files, dir_files, todo, added,
                    rewritten >>

\* except Exception: time.sleep(4)
Backoff ==
    /\ pc = "backoff"
    /\ pc' = "sleep"
    /\ NoOutput
    /\ paused' = BackoffSeconds
    /\ NoScanHistory
    /\ UNCHANGED interval
    /\ UNCHANGED << fs, dir_ok, exit_flag, watched_files, dir_files, todo, added,
                    rewritten >>

\* time.sleep(args.int)
Sleep ==
    /\ pc = "sleep"
    /\ pc' = "check"
    /\ NoOutput
    /\ paused' = interval
    /\ NoScanHistory
    /\ UNCHANGED interval
    /\ UNCHANGED << fs, dir_ok, exit_flag, watched_files, dir_files, todo, added,
                    rewritten >>

\* Mutant of signal_handler: the handler toggles the flag, so that a second
\* signal withdraws the request.
signal_handler_toggles ==
    /\ pc # "stopped"
    /\ exit_flag' = ~exit_flag
    /\ NoOutput
    /\ Quiet
    /\ NoScanHistory
    /\ UNCHANGED interval
    /\ UNCHANGED << fs, dir_ok, watched_files, dir_files, todo, pc, added, rewritten >>

\* Mutant of signal_handler: the handler ends the process itself (as the
\* default disposition of SIGTERM does) instead of returning to main().
signal_handler_exits ==
    /\ pc # "stopped"
    /\ exit_flag' = TRUE
    /\ pc' = "stopped"
    /\ EndCall
    /\ NoOutput
    /\ Quiet
    /\ NoScanHistory
    /\ UNCHANGED interval
    /\ UNCHANGED << fs, dir_ok, watched_files, rewritten >>

\* signal_handler: SIGINT or SIGTERM is delivered while main() runs
signal_handler ==
    /\ pc # "stopped"
    /\ exit_flag' = TRUE
    /\ NoOutput
    /\ Quiet
    /\ NoScanHistory
    /\ UNCHANGED interval
    /\ UNCHANGED << fs, dir_ok, watched_files, dir_files, todo, pc, added, rewritten >>

\* The steps of the program itself
Main ==
    \/ LoopCheck
    \/ ListDir
    \/ Reconcile
    \/ \E f \in Names : ScanOne(f)
    \/ ScanDone
    \/ HandleOSError
    \/ HandleException
    \/ Backoff
    \/ Sleep

Next ==
    \/ Main
    \/ signal_handler
    \/ Env

Spec == Init /\ [][Next]_vars

\* The interpreter keeps running main() until it returns.
FairSpec == Spec /\ WF_vars(Main)

\* main() started with any of the values of --int
TimingInit ==
    /\ fs = [f \in Names \ Matching(Names) |-> <<>>]
    /\ dir_ok = TRUE
    /\ exit_flag = FALSE
    /\ watched_files = << >>
    /\ dir_files = {}
    /\ todo = {}
    /\ pc = "check"
    /\ added = {}
    /\ removed = {}
    /\ last_scan = NoScan
    /\ failed = NoFile
    /\ rewritten = {}
    /\ interval \in Intervals
    /\ paused = 0
    /\ tested = << >>
    /\ reported = << >>
    /\ retry = {}

TimingSpec == TimingInit /\ [][Next]_vars

----------------------------------------------------------------------------
\* scan_single_file on its own: every content of the two watched files, every
\* start line from 0 on, one scan of each file.

Contents(n) == UNION { [1..k -> LineSet] : k \in 0..n }

ScanInit ==
    /\ fs \in [Matching(Names) -> Contents(MaxLines + 1)]
    /\ watched_files \in [Matching(Names) -> 0..(MaxLines + 2)]
    /\ dir_ok = TRUE
    /\ exit_flag = FALSE
    /\ dir_files = Matching(Names)
    /\ todo = Matching(Names)
    /\ pc = "scan"
    /\ added = {}
    /\ removed = {}
    /\ last_scan = NoScan
    /\ failed = NoFile
    /\ rewritten = {}
    /\ interval = DefaultInterval
    /\ paused = 0
    /\ tested = [f \in Matching(Names) |-> {}]
    /\ reported = [f \in Matching(Names) |-> {}]
    /\ retry = {}

ScanNext == \E f \in Names : ScanOne(f)

ScanSpec == ScanInit /\ [][ScanNext]_vars

\* The next call of watch_directory reaches f again (lines 61-65) while the
\* content of the directory has not changed since f was scanned.
Rearm(f) ==
    /\ pc = "scan"
    /\ last_scan # NoScan
    /\ last_scan.file = f
    /\ f \notin todo
    /\ todo' = todo \cup {f}
    /\ UNCHANGED << fs, dir_ok, exit_flag, watched_files, dir_files, pc, added,
                    removed, last_scan, failed, rewritten, interval, paused,
                    tested, reported, retry >>

RescanNext == \E f \in Names : ScanOne(f) \/ Rearm(f)

\* Scans and re-scans of files whose content stays as it is.
RescanSpec == ScanInit /\ [][RescanNext]_vars

----------------------------------------------------------------------------
\* Properties

\* The 1-based numbers of the lines of a file that contain the text and lie
\* after the first n lines, as a set
MatchesAfter(lines, n, text) ==
    { k \in 1..Len(lines) : k > n /\ Contains(lines[k], text) }

\* The file scanned by the latest step, when it made a scan
Scanned == last_scan # NoScan

\* C1. Error isolation: the scan loop of a cycle ends only when every watched
\* file that can be opened has been scanned; a file whose open() fails does
\* not keep the files after it from being scanned in that cycle.
C1_ErrorIsolation ==
    [][(pc = "scan" /\ pc' # "scan") => \A b \in todo : ~CanOpen(b)]_vars

\* C2. First scan of a newly discovered file: the file is entered with
\* offset 1 and its line 1 is tested, so a first line that contains the magic
\* text is reported as found on line 1.
C2_FirstLineTested ==
    (/\ Scanned
     /\ last_scan.file \in added
     /\ Len(fs[last_scan.file]) >= 1
     /\ Contains(fs[last_scan.file][1], magic))
    => (/\ last_scan.start_line = 1
        /\ \E i \in DOMAIN last_scan.events : last_scan.events[i] = 1)

\* C3. Diff completeness: the reconcile step leaves exactly the listed names
\* that end with ext as keys of watched_files: every watched name that is not
\* listed is removed, every listed matching name that was not watched is
\* entered with offset 1; and the keys stay so while the files are scanned.
C3_DiffCompleteness ==
    /\ [](pc = "scan" => DOMAIN watched_files = Matching(dir_files))
    /\ [][(pc = "reconcile" /\ pc' # "reconcile") =>
            (/\ DOMAIN watched_files' = Matching(dir_files)
             /\ \A f \in DOMAIN watched_files \ dir_files :
                    f \notin DOMAIN watched_files'
             /\ \A f \in Matching(dir_files) \ DOMAIN watched_files :
                    /\ f \in DOMAIN watched_files'
                    /\ watched_files'[f] = 1
                    /\ f \in added')]_vars

C3_Witness ==
    /\ pc = "scan"
    /\ removed # {}
    /\ added # {}
    /\ dir_files \ DOMAIN watched_files # {}

\* C4. Removal raises no error: when watched files are missing from the
\* listing, the reconcile step removes all of them, raises nothing, and the
\* cycle goes on to the scan loop over all the files still watched.
C4_RemovalIsSafe ==
    [][(/\ pc = "reconcile"
        /\ pc' # "reconcile"
        /\ DOMAIN watched_files \ dir_files # {}) =>
            (/\ pc' = "scan"
             /\ removed' = DOMAIN watched_files \ dir_files
             /\ DOMAIN watched_files' \cap removed' = {}
             /\ todo' = DOMAIN watched_files')]_vars

C4_Witness ==
    /\ pc = "scan"
    /\ removed # {}
    /\ todo # {}
    /\ added = {}

\* C5. Shutdown boundary: with exit_flag set, no step enters a new call of
\* watch_directory, and the test of the while loop leads to the end of main().
C5_ShutdownBoundary ==
    [][exit_flag =>
         (/\ (pc # "list" => pc' # "list")
          /\ (pc = "check" /\ pc' # "check" => pc' = "stopped"))]_vars

C5_Witness == exit_flag /\ pc = "stopped"

\* C6. Shutdown liveness: once a signal has set exit_flag, main() eventually
\* leaves the while loop, after the call of watch_directory in progress
\* (whether it returns or raises) and the sleep that follows.
C6_ShutdownHonored == exit_flag ~> (pc = "stopped")

C6_Witness == exit_flag /\ pc = "backoff"

\* C7. Monotonic cursor: for a watched file whose content only grows by
\* appended lines (an empty file included), the offset never decreases and,
\* after each scan, equals the number of lines of the file.
C7_MonotonicCursor ==
    [][\A f \in DOMAIN watched_files \cap DOMAIN watched_files' :
          f \notin rewritten' =>
            (/\ watched_files'[f] >= watched_files[f]
             /\ (Scanned' /\ last_scan'.file = f =>
                    watched_files'[f] = Len(fs[f])))]_vars

\* C8. No failure ends the loop: main() ends only with exit_flag set, and
\* after an exception of either kind the loop reaches the next call of
\* watch_directory, unless a signal stops it first.
C8_NoFailureTerminates ==
    /\ [](pc = "stopped" => exit_flag)
    /\ (pc \in {"except_os", "except_other"}) ~> (pc \in {"list", "stopped"})

C8_Witness == ~exit_flag /\ pc = "backoff"

\* C9. Match reporting: a scan logs exactly the lines whose 1-based number is
\* greater than start_line and that contain the magic text, each with its
\* number, in increasing order.
C9_MatchReporting ==
    Scanned =>
        LET ev == last_scan.events
        IN  /\ { ev[i] : i \in DOMAIN ev }
                 = MatchesAfter(fs[last_scan.file], last_scan.start_line, magic)
            /\ \A i, j \in DOMAIN ev : i < j => ev[i] < ev[j]

C9_Witness ==
    /\ Scanned
    /\ last_scan.events # <<>>
    /\ last_scan.start_line >= 1
    /\ \E k \in 1..Len(fs[last_scan.file]) :
          /\ k <= last_scan.start_line
          /\ Contains(fs[last_scan.file][k], magic)
    /\ \E k \in 1..Len(fs[last_scan.file]) :
          /\ k > last_scan.start_line
          /\ ~Contains(fs[last_scan.file][k], magic)

\* C10. Scan result: a scan returns the number of lines of the file, an
\* empty file included, and that number becomes the offset of the file.
C10_ReturnsLineCount ==
    Scanned =>
        /\ last_scan.ret = Len(fs[last_scan.file])
        /\ watched_files[last_scan.file] = Len(fs[last_scan.file])

\* C11. Idempotent re-scan: when a file that was just scanned is scanned
\* again with unchanged content, the second scan starts from the offset the
\* first one returned, reports no match and returns that same offset.
C11_IdempotentRescan ==
    [][\A f \in Names :
          (Scanned /\ last_scan.file = f /\ fs' = fs
                   /\ Scanned' /\ last_scan'.file = f /\ f \in todo \ todo')
          => /\ last_scan'.start_line = last_scan.ret
             /\ last_scan'.events = <<>>
             /\ last_scan'.ret = last_scan.ret
             /\ watched_files'[f] = watched_files[f]]_vars

\* A file with a line containing magic has been scanned from 0 and then
\* again from the offset returned.
C11_Witness ==
    /\ Scanned
    /\ Len(fs[last_scan.file]) >= 1
    /\ MatchesAfter(fs[last_scan.file], 0, magic) # {}
    /\ tested[last_scan.file] = 1..Len(fs[last_scan.file])
    /\ last_scan.start_line = Len(fs[last_scan.file])
    /\ last_scan.events = <<>>

\* C12. Each poll scans only newly appended lines: while a file stays in
\* watched_files and its content only grows by appended lines, a scan tests
\* no line that an earlier scan tested and reports no line that an earlier
\* scan reported.
C12_OnlyNewLines ==
    [][\A f \in DOMAIN watched_files \ rewritten :
          (Scanned' /\ last_scan'.file = f /\ f \in todo \ todo')
          => /\ TestedLines(fs[f], watched_files[f]) \cap tested[f] = {}
             /\ \A i \in DOMAIN last_scan'.events :
                    last_scan'.events[i] \notin reported[f]]_vars

\* A file watched since an earlier call has grown and the scan of this call
\* has tested and reported its new line.
C12_Witness ==
    /\ Scanned
    /\ last_scan.file \notin rewritten \cup added
    /\ last_scan.events = << 2 >>
    /\ tested[last_scan.file] = {2}
    /\ reported[last_scan.file] = {2}

\* C13 as stated. Offset never decreases: an entry that stays in
\* watched_files never gets a smaller offset, whatever happens to the content
\* of the file.
C13_OffsetNeverDecreases ==
    [][\A f \in DOMAIN watched_files \cap DOMAIN watched_files' :
          watched_files'[f] >= watched_files[f]]_vars

\* C13. Offset decreases only after a rewrite: the offset of an entry that
\* stays in watched_files gets smaller only at a scan of a file that was
\* deleted and written again since it is watched and now has fewer lines than
\* the offset; for a file that only grows it never decreases.
C13_DecreaseOnlyWhenShorter ==
    [][\A f \in DOMAIN watched_files \cap DOMAIN watched_files' :
          watched_files'[f] < watched_files[f]
          => /\ f \in rewritten
             /\ Scanned' /\ last_scan'.file = f
             /\ Len(fs[f]) < watched_files[f]
             /\ watched_files'[f] = last_scan'.ret]_vars

\* A rewritten file has been scanned and the scan returned less than the
\* offset it started from.
C13_Witness ==
    /\ Scanned
    /\ last_scan.file \in rewritten
    /\ last_scan.ret < last_scan.start_line
    /\ watched_files[last_scan.file] = last_scan.ret

\* The order of the steps of main() after a failed call of watch_directory:
\* a failed os.listdir is logged and followed by time.sleep(args.int) alone,
\* a failed scan is logged and followed by one more time.sleep before it,
\* and the while test comes next.
C14_Order ==
    /\ (pc = "list" /\ ~dir_ok /\ pc' # pc) => pc' = "except_os"
    /\ (pc = "scan" /\ failed' # NoFile) => pc' = "except_other"
    /\ (pc = "except_os" /\ pc' # pc) => pc' = "sleep" /\ paused' = 0
    /\ (pc = "except_other" /\ pc' # pc) => pc' = "backoff" /\ paused' = 0
    /\ (pc = "backoff" /\ pc' # pc) => pc' = "sleep" /\ paused' > 0
    /\ (pc = "sleep" /\ pc' # pc) => pc' = "check" /\ paused' = interval
    /\ paused' > 0 => pc \in { "backoff", "sleep" } /\ pc' # pc

C15_SignalOnlySetsFlag ==
    [][/\ exit_flag' # exit_flag
          => /\ exit_flag'
             /\ UNCHANGED << fs, dir_ok, watched_files, dir_files, todo, pc,
                             added, rewritten, interval >>
       /\ (pc' = "stopped" /\ pc # "stopped") => pc = "check"
       /\ (exit_flag /\ pc = "list" /\ pc' # pc)
          => pc' = (IF dir_ok THEN "reconcile" ELSE "except_os")
       /\ (exit_flag /\ pc = "reconcile" /\ pc' # pc)
          => /\ pc' = "scan"
             /\ DOMAIN watched_files' = Matching(dir_files)
             /\ todo' = DOMAIN watched_files'
       /\ (exit_flag /\ pc = "scan" /\ pc' # pc)
          => \/ todo = {} /\ pc' = "sleep"
             \/ failed' # NoFile /\ ~CanOpen(failed') /\ pc' = "except_other"
       /\ (exit_flag /\ pc = "scan" /\ todo # todo')
          => \/ failed' # NoFile /\ ~CanOpen(failed')
             \/ /\ Scanned'
                /\ todo' = todo \ {last_scan'.file}
                /\ last_scan'.ret = scan_single_file(fs[last_scan'.file],
                                       watched_files[last_scan'.file], magic).ret
                /\ watched_files'[last_scan'.file] = last_scan'.ret]_vars

\* The signal arrived inside a call of watch_directory and a file has been
\* scanned after it.
C15_Witness ==
    /\ exit_flag
    /\ pc = "scan"
    /\ Scanned
    /\ last_scan.events # <<>>

\* A step that is neither a step of main() nor a change of the directory:
\* the delivery of a signal.
C16_SignalStep ==
    /\ pc # "stopped"
    /\ UNCHANGED << pc, todo, fs, dir_ok >>

\* C16. exit_flag is monotone: it is False at the start, a handled signal
\* makes it True, no step makes it False again, and a signal handled while it
\* is True changes nothing of the state of the program.
C16_FlagMonotone ==
    /\ ~exit_flag
    /\ [][/\ exit_flag => exit_flag'
          /\ (exit_flag' # exit_flag) => C16_SignalStep
          /\ (C16_SignalStep /\ exit_flag)
             => UNCHANGED << exit_flag, watched_files, dir_files, added,
                             rewritten, interval, tested, reported, retry >>]_vars

\* The flag is set and main() is inside a call of watch_directory with files
\* still to scan, where a further signal can be delivered.
C16_Witness ==
    /\ exit_flag
    /\ pc = "scan"
    /\ todo # {}
    /\ \E f \in DOMAIN watched_files : watched_files[f] > 1

\* C17 as stated. A failed scan keeps the cursor: from the failed scan of a
\* watched file on, its entry stays in watched_files with the offset it had,
\* up to the call that scans the file again.
C17_FailedScanKeepsEntry ==
    [][\A f \in retry :
          /\ f \in DOMAIN watched_files'
          /\ watched_files'[f] = watched_files[f]]_vars

\* C17. A failed scan keeps the cursor while the file is listed: the failed
\* scan changes no entry of watched_files; the entry of the file then stays
\* as it is up to the next comparison with a listing, which keeps it with
\* its offset when the file is listed and removes it when the file is not;
\* and no entry ever gets another offset but by a scan that starts from the
\* offset it has.
C17_FailedScanKeepsListed ==
    [][/\ failed' # NoFile
          => /\ watched_files' = watched_files
             /\ failed' \in DOMAIN watched_files
             /\ retry' = {failed'}
       /\ \A f \in retry :
             /\ f \in DOMAIN watched_files
             /\ pc # "reconcile"
                => /\ f \in DOMAIN watched_files'
                   /\ watched_files'[f] = watched_files[f]
             /\ (pc = "reconcile" /\ pc' # pc /\ f \in dir_files)
                => /\ f \in DOMAIN watched_files'
                   /\ watched_files'[f] = watched_files[f]
                   /\ f \in todo'
             /\ (pc = "reconcile" /\ pc' # pc /\ f \notin dir_files)
                => f \notin DOMAIN watched_files'
       /\ \A f \in DOMAIN watched_files \cap DOMAIN watched_files' :
             watched_files'[f] # watched_files[f]
             => /\ Scanned'
                /\ last_scan'.file = f
                /\ last_scan'.start_line = watched_files[f]]_vars

\* The file whose scan failed in the latest call is listed again, and its
\* entry still has the offset reached before.
C17_Witness ==
    /\ pc = "reconcile"
    /\ \E f \in retry \cap dir_files : watched_files[f] > 1

\* C18. Reconcile preserves cursors: the comparison with the listing leaves
\* every name that is watched and listed in watched_files, with its offset.
C18_ReconcileKeepsCursors ==
    [][(pc = "reconcile" /\ pc' # pc)
       => \A f \in DOMAIN watched_files \cap dir_files :
             /\ f \in DOMAIN watched_files'
             /\ watched_files'[f] = watched_files[f]
             /\ f \notin added' \cup removed']_vars

\* The comparison has kept a watched file whose offset is beyond the
\* initial one, while it added or removed another file.
C18_Witness ==
    /\ pc = "scan"
    /\ todo = DOMAIN watched_files
    /\ added \cup removed # {}
    /\ \E f \in todo \ added : watched_files[f] > 1

\* C19. Every appended line is reported: after each scan of a file that is
\* watched and has only been appended to, the lines reported for it so far
\* are exactly its lines from the second on that contain magic, each under
\* its own number, and none of them is reported by two scans.
C19_AppendedLinesReported ==
    [][\A f \in DOMAIN watched_files \ rewritten :
          (Scanned' /\ last_scan'.file = f /\ f \in todo \ todo')
          => LET ev == last_scan'.events
             IN  /\ reported'[f] = MatchesAfter(fs[f], 1, magic)
                 /\ reported'[f] = reported[f] \cup { ev[i] : i \in DOMAIN ev }
                 /\ \A i \in DOMAIN ev : ev[i] \notin reported[f]
                 /\ \A i, j \in DOMAIN ev : i # j => ev[i] # ev[j]]_vars

\* A watched file whose first and second line contain magic: the second,
\* appended while the file was watched, has been reported, the first has not.
C19_Witness ==
    /\ Scanned
    /\ last_scan.file \notin rewritten \cup added
    /\ Len(fs[last_scan.file]) = 2
    /\ Contains(fs[last_scan.file][1], magic)
    /\ last_scan.events = << 2 >>
    /\ last_scan.start_line = 1
    /\ reported[last_scan.file] = {2}

\* C20. Frame on listing failure: a call of watch_directory whose os.listdir
\* fails ends there: it changes nothing in watched_files and scans no file,
\* and neither do the steps of main() up to the next call, so that the files
\* are scanned from the offsets they had once the directory is back and no
\* line reported before is reported again.
C20_ListingFailureFrame ==
    [][/\ (pc = "list" /\ ~dir_ok /\ pc' # pc)
          => /\ pc' = "except_os"
             /\ todo' = {}
       /\ (pc = "except_os" /\ pc' # pc) => pc' = "sleep"
       /\ pc \in { "list", "except_os", "sleep", "check" }
          => /\ watched_files' = watched_files
             /\ ~Scanned'
             /\ UNCHANGED << tested, reported >> \/ fs' # fs
       /\ (Scanned' /\ last_scan'.file \in todo \ todo')
          => /\ last_scan'.start_line = watched_files[last_scan'.file]
             /\ last_scan'.file \notin rewritten
                => \A i \in DOMAIN last_scan'.events :
                      last_scan'.events[i] \notin reported[last_scan'.file]]_vars

\* A listing has failed while a file is watched whose offset is beyond the
\* initial one and for which a line has been reported.
C20_Witness ==
    /\ pc = "except_os"
    /\ \E f \in DOMAIN watched_files :
          /\ watched_files[f] > 1
          /\ reported[f] # {}

====
